---- MODULE Spec2Model ----
(***************************************************************************)
(* Model of data/generate-test-rules.py: the rule fixture generator.       *)
(*                                                                         *)
(* The script is a linear batch program: seed the random source, compute   *)
(* the partition sizes, generate the valid, duplicate and invalid records, *)
(* shuffle, write the JSONL file, compute and write the statistics, print  *)
(* the summary.  The state machine below follows it statement by           *)
(* statement; its inputs are the seed and total_rules.                     *)
(*                                                                         *)
(* Python values are modelled as follows.                                  *)
(*   str    a TLA+ string (Len, \o and SubSeq act on its characters)       *)
(*   dict   a function whose DOMAIN is the set of keys present; the key    *)
(*          order of a dict is fixed by the code that builds it            *)
(*   list   a sequence                                                     *)
(*   a condition's "value", whose type depends on the operator, carries    *)
(*          its Python type: [t |-> "int" | "str" | "bool" | "list", v]    *)
(***************************************************************************)
EXTENDS Integers, Sequences, FiniteSets, TLC

(***************************************************************************)
(* Bounds of the model.                                                    *)
(***************************************************************************)
\* seeds 0..MaxSeed are tried
MaxSeed == 5
\* the script is invoked at most MaxRuns times in a row
MaxRuns == 2
\* total_rules ranges over -MinTotalBelow..MaxSmallTotal and BigTotals
MinTotalBelow == 40
MaxSmallTotal == 40

BigTotals == {100, 200}

Totals == ((0 - MinTotalBelow)..MaxSmallTotal) \cup BigTotals

Seeds == 0..MaxSeed

(***************************************************************************)
(* Module-level tables of the script.                                      *)
(***************************************************************************)
FAMILIES ==
  << "fraud_detection", "customer_segmentation", "pricing_engine",
     "marketing_automation", "risk_assessment", "compliance_check",
     "payment_processing", "inventory_management", "order_fulfillment",
     "user_authentication" >>

FAMILY_FIELDS ==
  [ fraud_detection |-> << "transaction_amount", "country", "device_fingerprint",
                           "ip_address", "transaction_count_24h" >>,
    customer_segmentation |-> << "customer_tier", "lifetime_value", "account_age_days",
                                 "purchase_frequency", "avg_order_value" >>,
    pricing_engine |-> << "product_category", "quantity", "customer_segment",
                          "season", "competitor_price" >>,
    marketing_automation |-> << "email_open_rate", "click_through_rate",
                                "campaign_type", "customer_engagement_score" >>,
    risk_assessment |-> << "credit_score", "debt_to_income_ratio",
                           "employment_status", "payment_history_score" >>,
    compliance_check |-> << "jurisdiction", "document_type", "verification_status",
                            "kyc_level" >>,
    payment_processing |-> << "payment_method", "amount", "currency",
                              "merchant_category", "card_type" >>,
    inventory_management |-> << "stock_level", "reorder_point", "product_category",
                                "warehouse_location" >>,
    order_fulfillment |-> << "order_status", "shipping_method", "delivery_priority",
                             "package_weight" >>,
    user_authentication |-> << "login_attempts", "last_login_days_ago", "mfa_enabled",
                               "account_status" >> ]

VECTORIZABLE_OPERATORS == << "EQUAL_TO", "NOT_EQUAL_TO", "IS_ANY_OF", "IS_NONE_OF" >>

NON_VECTORIZABLE_OPERATORS == << "GREATER_THAN", "LESS_THAN", "BETWEEN" >>

ALL_OPERATORS == VECTORIZABLE_OPERATORS \o NON_VECTORIZABLE_OPERATORS

SAMPLE_VALUES ==
  [ country |-> << "US", "UK", "CA", "DE", "FR", "JP", "AU" >>,
    status |-> << "ACTIVE", "INACTIVE", "PENDING", "SUSPENDED" >>,
    tier |-> << "BRONZE", "SILVER", "GOLD", "PLATINUM" >>,
    category |-> << "ELECTRONICS", "CLOTHING", "FOOD", "BOOKS", "SPORTS" >>,
    method |-> << "CREDIT_CARD", "DEBIT_CARD", "PAYPAL", "WIRE_TRANSFER" >>,
    boolean |-> << TRUE, FALSE >> ]

INVALID_TYPES ==
  << "missing_rule_code", "missing_description", "missing_conditions",
     "empty_conditions", "invalid_priority_high", "invalid_priority_low",
     "invalid_priority_negative" >>

\* the file name the entry point passes
FILENAME == "rules/test-rules-3k.jsonl"

(***************************************************************************)
(* Python values of dynamic type (a condition's "value").                  *)
(***************************************************************************)
PyInt(n) == [t |-> "int", v |-> n]

PyStr(s) == [t |-> "str", v |-> s]

PyBool(b) == [t |-> "bool", v |-> b]

PyList(s) == [t |-> "list", v |-> s]

(***************************************************************************)
(* str methods and formatting.                                             *)
(***************************************************************************)
startswith(s, prefix) ==
  /\ Len(s) >= Len(prefix)
  /\ SubSeq(s, 1, Len(prefix)) = prefix

endswith(s, suffix) ==
  /\ Len(s) >= Len(suffix)
  /\ SubSeq(s, Len(s) - Len(suffix) + 1, Len(s)) = suffix

\* sub in s
contains(s, sub) ==
  \E k \in 1..(Len(s) - Len(sub) + 1) : SubSeq(s, k, k + Len(sub) - 1) = sub

\* s.replace(old, new), scanning from position k on
RECURSIVE ReplaceFrom(_, _, _, _)
ReplaceFrom(s, old, new, k) ==
  IF k > Len(s) THEN ""
  ELSE IF k + Len(old) - 1 <= Len(s) /\ SubSeq(s, k, k + Len(old) - 1) = old
       THEN new \o ReplaceFrom(s, old, new, k + Len(old))
       ELSE SubSeq(s, k, k) \o ReplaceFrom(s, old, new, k + 1)

replace(s, old, new) == ReplaceFrom(s, old, new, 1)

LowerCase == "abcdefghijklmnopqrstuvwxyz"

UpperCase == "ABCDEFGHIJKLMNOPQRSTUVWXYZ"

IsLower(c) == \E k \in 1..26 : SubSeq(LowerCase, k, k) = c

IsUpper(c) == \E k \in 1..26 : SubSeq(UpperCase, k, k) = c

ToUpper(c) ==
  IF IsLower(c)
  THEN LET k == CHOOSE j \in 1..26 : SubSeq(LowerCase, j, j) = c
       IN SubSeq(UpperCase, k, k)
  ELSE c

ToLower(c) ==
  IF IsUpper(c)
  THEN LET k == CHOOSE j \in 1..26 : SubSeq(UpperCase, j, j) = c
       IN SubSeq(LowerCase, k, k)
  ELSE c

\* s.title(): a cased character is upper-cased after an uncased one and
\* lower-cased after a cased one
RECURSIVE TitleFrom(_, _, _)
TitleFrom(s, k, prevCased) ==
  IF k > Len(s) THEN ""
  ELSE LET c == SubSeq(s, k, k)
           cased == IsLower(c) \/ IsUpper(c)
       IN (IF prevCased THEN ToLower(c) ELSE ToUpper(c))
            \o TitleFrom(s, k + 1, cased)

title(s) == TitleFrom(s, 1, FALSE)

RECURSIVE Zeros(_)
Zeros(n) == IF n <= 0 THEN "" ELSE "0" \o Zeros(n - 1)

\* f"{n:04d}": zero-padded to width 4, the sign counted in the width
Format04d(n) ==
  IF n >= 0
  THEN Zeros(4 - Len(ToString(n))) \o ToString(n)
  ELSE "-" \o Zeros(3 - Len(ToString(0 - n))) \o ToString(0 - n)

\* f"{n}"
FormatInt(n) == IF n >= 0 THEN ToString(n) ELSE "-" \o ToString(0 - n)

\* Python's // (floor division) and % by a positive divisor
FloorDiv(a, b) == a \div b

Max(a, b) == IF a >= b THEN a ELSE b

(***************************************************************************)
(* int(total_rules * 0.05) and int(total_rules * 0.03): the product of an  *)
(* int and a binary64 constant, rounded to nearest-even, then truncated    *)
(* toward zero.  A binary64 constant is [mant, exp]: the 53-bit mantissa   *)
(* as 16-bit limbs, least significant first, and the value mant * 2^-exp.  *)
(* The operators are exact for |n| < 2^15.                                 *)
(***************************************************************************)
\* 0.05 = 0x1999999999999A * 2^-57
DOUBLE_0_05 == [mant |-> << 39322, 39321, 39321, 25 >>, exp |-> 57]

\* 0.03 = 0x1EB851EB851EB8 * 2^-58
DOUBLE_0_03 == [mant |-> << 7864, 60293, 47185, 30 >>, exp |-> 58]

RECURSIVE Pow2(_)
Pow2(n) == IF n <= 0 THEN 1 ELSE 2 * Pow2(n - 1)

Abs(n) == IF n < 0 THEN 0 - n ELSE n

\* limbs * n, from limb k on, as limbs
RECURSIVE MulLimbs(_, _, _, _)
MulLimbs(limbs, n, k, carry) ==
  IF k > Len(limbs)
  THEN IF carry = 0 THEN << >> ELSE << carry >>
  ELSE LET p == limbs[k] * n + carry
       IN << p % 65536 >> \o MulLimbs(limbs, n, k + 1, p \div 65536)

\* bit k (from 1, least significant) of the number P
Bit(P, k) ==
  IF k < 1 \/ k > 16 * Len(P) THEN 0
  ELSE (P[((k - 1) \div 16) + 1] \div Pow2((k - 1) % 16)) % 2

BitLen(P) ==
  LET S == {k \in 1..(16 * Len(P)) : Bit(P, k) = 1}
  IN IF S = {} THEN 0 ELSE CHOOSE k \in S : \A j \in S : j <= k

\* the number whose bits are bits lo..hi of P
RECURSIVE BitsValue(_, _, _)
BitsValue(P, lo, hi) ==
  IF lo > hi THEN 0 ELSE Bit(P, lo) + 2 * BitsValue(P, lo + 1, hi)

\* int(n * d) for an int n and a binary64 constant d
IntOfProduct(n, d) ==
  LET P == MulLimbs(d.mant, Abs(n), 1, 0)
      L == BitLen(P)
      \* the s low bits do not fit the 53-bit mantissa of the product
      s == L - 53
      up == /\ s > 0
            /\ Bit(P, s) = 1
            /\ \/ Bit(P, s + 1) = 1
               \/ \E k \in 1..(s - 1) : Bit(P, k) = 1
      \* rounding up reaches the integer part when every kept fraction bit is set
      carry == up /\ \A k \in (s + 1)..d.exp : Bit(P, k) = 1
      m == BitsValue(P, d.exp + 1, L) + (IF carry THEN 1 ELSE 0)
  IN IF n < 0 THEN 0 - m ELSE m

(***************************************************************************)
(* The random module.  Its generator is deterministic: the state after     *)
(* random.seed(a) depends on a alone, and each draw advances the state.    *)
(* The generator is modelled by a multiplicative congruential generator    *)
(* on 1..65536; every library call that draws returns [v |-> the value     *)
(* drawn, g |-> the generator's next state].                               *)
(***************************************************************************)
\* random.seed(a)
seed_state(a) == (a % 65536) + 1

\* one step of the generator
random_next(g) == (g * 75) % 65537

\* Random._randbelow(n): a number in 0..n-1
randbelow(g, n) ==
  LET g2 == random_next(g) IN [v |-> g2 % n, g |-> g2]

\* random.randint(a, b): a number in a..b
randint(g, a, b) ==
  LET r == randbelow(g, b - a + 1) IN [v |-> a + r.v, g |-> r.g]

\* random.choice(seq)
choice(g, seq) ==
  LET r == randbelow(g, Len(seq)) IN [v |-> seq[r.v + 1], g |-> r.g]

\* random.sample(population, k), the pool branch taken for small populations:
\* for i in range(k): j = randbelow(n - i); result[i] = pool[j];
\*                    pool[j] = pool[n - i - 1]
RECURSIVE SampleFrom(_, _, _, _, _)
SampleFrom(g, pool, i, k, result) ==
  IF i >= k THEN [v |-> result, g |-> g]
  ELSE LET n == Len(pool)
           r == randbelow(g, n - i)
       IN SampleFrom(r.g, [pool EXCEPT ![r.v + 1] = pool[n - i]], i + 1, k,
                     Append(result, pool[r.v + 1]))

sample(g, population, k) == SampleFrom(g, population, 0, k, << >>)

\* random.shuffle(x):
\* for i in reversed(range(1, len(x))): j = randbelow(i + 1); swap x[i], x[j]
RECURSIVE ShuffleFrom(_, _, _)
ShuffleFrom(g, x, i) ==
  IF i < 1 THEN [v |-> x, g |-> g]
  ELSE LET r == randbelow(g, i + 1)
       IN ShuffleFrom(r.g, [x EXCEPT ![i + 1] = x[r.v + 1], ![r.v + 1] = x[i + 1]],
                      i - 1)

shuffle(g, x) == ShuffleFrom(g, x, Len(x) - 1)

(***************************************************************************)
(* generate_rule(rule_num, family, is_duplicate, is_invalid).              *)
(***************************************************************************)
\* f"{family}.rule_{num:04d}"
format_rule_code(family, num) == family \o ".rule_" \o Format04d(num)

\* mutant of duplicate_num: the floor at 1 is missing
duplicate_num_mutant(rule_num, offset) == rule_num - offset

\* max(1, rule_num - random.randint(100, 500)), given the number drawn
duplicate_num(rule_num, offset) == Max(1, rule_num - offset)

\* mutant of generate_value: the upper end of a BETWEEN range is computed
\* with the width subtracted
generate_value_mutant(g, field, operator) ==
  IF operator \in {"IS_ANY_OF", "IS_NONE_OF"}
  THEN LET k == randint(g, 2, 4)
           s == sample(k.g, SAMPLE_VALUES.country, k.v)
       IN [v |-> PyList([j \in 1..Len(s.v) |-> PyStr(s.v[j])]), g |-> s.g]
  ELSE IF operator = "BETWEEN"
  THEN LET min_val == randint(g, 100, 5000)
           delta == randint(min_val.g, 1000, 5000)
           max_val == min_val.v - delta.v
       IN [v |-> PyList(<< PyInt(min_val.v), PyInt(max_val) >>), g |-> delta.g]
  ELSE IF contains(operator, "THAN")
  THEN LET r == randint(g, 100, 10000) IN [v |-> PyInt(r.v), g |-> r.g]
  ELSE IF endswith(field, "_enabled") \/ endswith(field, "mfa_enabled")
  THEN LET r == choice(g, << TRUE, FALSE >>) IN [v |-> PyBool(r.v), g |-> r.g]
  ELSE LET r == choice(g, SAMPLE_VALUES.status) IN [v |-> PyStr(r.v), g |-> r.g]

\* the value of one condition, shaped by its operator
generate_value(g, field, operator) ==
  IF operator \in {"IS_ANY_OF", "IS_NONE_OF"}
  THEN LET k == randint(g, 2, 4)
           s == sample(k.g, SAMPLE_VALUES.country, k.v)
       IN [v |-> PyList([j \in 1..Len(s.v) |-> PyStr(s.v[j])]), g |-> s.g]
  ELSE IF operator = "BETWEEN"
  THEN LET min_val == randint(g, 100, 5000)
           delta == randint(min_val.g, 1000, 5000)
           max_val == min_val.v + delta.v
       IN [v |-> PyList(<< PyInt(min_val.v), PyInt(max_val) >>), g |-> delta.g]
  ELSE IF contains(operator, "THAN")
  THEN LET r == randint(g, 100, 10000) IN [v |-> PyInt(r.v), g |-> r.g]
  ELSE IF endswith(field, "_enabled") \/ endswith(field, "mfa_enabled")
  THEN LET r == choice(g, << TRUE, FALSE >>) IN [v |-> PyBool(r.v), g |-> r.g]
  ELSE LET r == choice(g, SAMPLE_VALUES.status) IN [v |-> PyStr(r.v), g |-> r.g]

\* the body of "for _ in range(num_conditions)", n iterations left
RECURSIVE generate_conditions(_, _, _, _)
generate_conditions(g, fields, n, conditions) ==
  IF n <= 0 THEN [v |-> conditions, g |-> g]
  ELSE LET field == choice(g, fields)
           operator == choice(field.g, ALL_OPERATORS)
           value == generate_value(operator.g, field.v, operator.v)
       IN generate_conditions(value.g, fields, n - 1,
            Append(conditions,
                   [field |-> field.v, operator |-> operator.v, value |-> value.v]))

\* family.replace('_', ' ').title(), tabulated over FAMILIES
FAMILY_TITLES ==
  [f \in {FAMILIES[k] : k \in 1..Len(FAMILIES)} |-> title(replace(f, "_", " "))]

\* del d[key]
del(d, key) == [k \in (DOMAIN d) \ {key} |-> d[k]]

\* the tags of a rule
rule_tags(rule_num, family) ==
  << family, "batch_" \o FormatInt(FloorDiv(rule_num, 100)) >>
    \o (IF rule_num % 10 = 0 THEN << "production-critical", "high-priority" >> ELSE << >>)
    \o (IF rule_num % 7 = 0 THEN << "vectorized" >> ELSE << >>)

\* mutant of corrupt: invalid_priority_low sets 10, a value in range
corrupt_mutant(rule, invalid_type) ==
  IF invalid_type = "missing_rule_code" THEN del(rule, "rule_code")
  ELSE IF invalid_type = "missing_description" THEN del(rule, "description")
  ELSE IF invalid_type = "missing_conditions" THEN del(rule, "conditions")
  ELSE IF invalid_type = "empty_conditions" THEN [rule EXCEPT !["conditions"] = << >>]
  ELSE IF invalid_type = "invalid_priority_high" THEN [rule EXCEPT !["priority"] = 1500]
  ELSE IF invalid_type = "invalid_priority_low" THEN [rule EXCEPT !["priority"] = 10]
  ELSE IF invalid_type = "invalid_priority_negative" THEN [rule EXCEPT !["priority"] = -100]
  ELSE rule

\* "Introduce invalid rules": the corruption named invalid_type applied to rule
corrupt(rule, invalid_type) ==
  IF invalid_type = "missing_rule_code" THEN del(rule, "rule_code")
  ELSE IF invalid_type = "missing_description" THEN del(rule, "description")
  ELSE IF invalid_type = "missing_conditions" THEN del(rule, "conditions")
  ELSE IF invalid_type = "empty_conditions" THEN [rule EXCEPT !["conditions"] = << >>]
  ELSE IF invalid_type = "invalid_priority_high" THEN [rule EXCEPT !["priority"] = 1500]
  ELSE IF invalid_type = "invalid_priority_low" THEN [rule EXCEPT !["priority"] = -10]
  ELSE IF invalid_type = "invalid_priority_negative" THEN [rule EXCEPT !["priority"] = -100]
  ELSE rule

\* generate_rule, with the generator's state g threaded through its draws in
\* the order the code makes them: [v |-> the rule, g |-> the state after]
generate_rule(g, rule_num, family, is_duplicate, is_invalid) ==
  LET offset == IF is_duplicate THEN randint(g, 100, 500) ELSE [v |-> 0, g |-> g]
      rule_code == IF is_duplicate
                   THEN format_rule_code(family, duplicate_num(rule_num, offset.v))
                   ELSE format_rule_code(family, rule_num)
      fields == FAMILY_FIELDS[family]
      num_conditions == randint(offset.g, 1, 4)
      conditions == generate_conditions(num_conditions.g, fields, num_conditions.v, << >>)
      priority == randint(conditions.g, 1, 1000)
      enabled == choice(priority.g, << TRUE, TRUE, TRUE, FALSE >>)
      rule == [ rule_code |-> rule_code,
                description |-> FAMILY_TITLES[family] \o " Rule "
                                  \o FormatInt(rule_num),
                conditions |-> conditions.v,
                priority |-> priority.v,
                enabled |-> enabled.v,
                tags |-> rule_tags(rule_num, family) ]
      invalid_type == choice(enabled.g, INVALID_TYPES)
  IN IF is_invalid
     THEN [v |-> corrupt(rule, invalid_type.v), g |-> invalid_type.g]
     ELSE [v |-> rule, g |-> enabled.g]

(***************************************************************************)
(* json.dumps of a dict: its items in the dict's key order.                *)
(***************************************************************************)
RULE_KEYS == << "rule_code", "description", "conditions", "priority", "enabled", "tags" >>

STATS_KEYS ==
  << "total_rules", "valid_rules", "duplicate_rules", "invalid_rules", "families" >>

\* the keys of d, in the order keys lists them
RECURSIVE KeysIn(_, _, _)
KeysIn(d, keys, k) ==
  IF k > Len(keys) THEN << >>
  ELSE (IF keys[k] \in DOMAIN d THEN << keys[k] >> ELSE << >>) \o KeysIn(d, keys, k + 1)

json_dumps(d, keys) ==
  LET present == KeysIn(d, keys, 1)
  IN [j \in 1..Len(present) |-> << present[j], d[present[j]] >>]

\* r.get("rule_code", "")
get_rule_code(r) == IF "rule_code" \in DOMAIN r THEN r["rule_code"] ELSE ""

\* sum(1 for r in rules if r.get("rule_code", "").startswith(family))
family_count(rules, family) ==
  Cardinality({j \in 1..Len(rules) : startswith(get_rule_code(rules[j]), family)})

(***************************************************************************)
(* The state.                                                              *)
(***************************************************************************)
VARIABLES
  seed,             \* the argument of random.seed
  total_rules,      \* the argument of generate_test_file
  run,              \* how many times the script has been started
  pc,               \* the statement the script is at
  error,            \* the exception that ended the script, or "none"
  rng,              \* the state of the random module's generator
  num_duplicates, num_invalid, num_valid,
  rules, rule_num,
  i,                \* the index of the running generation loop
  line,             \* how many rules the write loop has written
  stats,
  fs,               \* the file system: path -> [exists, lines]
  previous          \* what the previous run of the script left behind

vars ==
  << seed, total_rules, run, pc, error, rng, num_duplicates, num_invalid, num_valid,
     rules, rule_num, i, line, stats, fs, previous >>

\* filename.replace('.jsonl', '_stats.json')
stats_filename == replace(FILENAME, ".jsonl", "_stats.json")

Paths == {FILENAME, stats_filename}

NoFile == [exists |-> FALSE, lines |-> << >>]

EmptyDict == [k \in {} |-> 0]

Init ==
  /\ seed \in Seeds
  /\ total_rules \in Totals
  /\ run = 0
  /\ pc = "idle"
  /\ error = "none"
  /\ rng = 0
  /\ num_duplicates = 0 /\ num_invalid = 0 /\ num_valid = 0
  /\ rules = << >>
  /\ rule_num = 0
  /\ i = 0
  /\ line = 0
  /\ stats = EmptyDict
  /\ fs = [p \in Paths |-> NoFile]
  /\ previous = [done |-> FALSE, fs |-> [p \in Paths |-> NoFile]]

(***************************************************************************)
(* The entry point: random.seed(...); generate_test_file(...).  A second   *)
(* run starts a new process (fresh locals, the generator seeded again) on  *)
(* the file system the first run left.                                     *)
(***************************************************************************)
\* mutant of Main: the generator is not seeded with the fixed seed, each
\* process starts it in a state of its own
Main_mutant ==
  /\ pc \in {"idle", "done"}
  /\ run < MaxRuns
  /\ run' = run + 1
  /\ previous' = [done |-> pc = "done", fs |-> fs]
  /\ rng' = seed_state(seed + run)
  /\ error' = "none"
  /\ num_duplicates' = 0 /\ num_invalid' = 0 /\ num_valid' = 0
  /\ rules' = << >>
  /\ rule_num' = 0
  /\ i' = 0
  /\ line' = 0
  /\ stats' = EmptyDict
  /\ pc' = "sizes"
  /\ UNCHANGED << seed, total_rules, fs >>

Main ==
  /\ pc \in {"idle", "done"}
  /\ run < MaxRuns
  /\ run' = run + 1
  /\ previous' = [done |-> pc = "done", fs |-> fs]
  /\ rng' = seed_state(seed)
  /\ error' = "none"
  /\ num_duplicates' = 0 /\ num_invalid' = 0 /\ num_valid' = 0
  /\ rules' = << >>
  /\ rule_num' = 0
  /\ i' = 0
  /\ line' = 0
  /\ stats' = EmptyDict
  /\ pc' = "sizes"
  /\ UNCHANGED << seed, total_rules, fs >>

(***************************************************************************)
(* generate_test_file, "Calculate distribution".                           *)
(***************************************************************************)
\* int(total_rules * 0.05)
duplicates_of(total) == IntOfProduct(total, DOUBLE_0_05)

\* int(total_rules * 0.03)
invalid_of(total) == IntOfProduct(total, DOUBLE_0_03)

\* mutant of valid_of: the invalid records are not subtracted
valid_of_mutant(total, duplicates, invalid) == total - duplicates

\* total_rules - num_duplicates - num_invalid
valid_of(total, duplicates, invalid) == total - duplicates - invalid

ComputeSizes ==
  /\ pc = "sizes"
  /\ num_duplicates' = duplicates_of(total_rules)
  /\ num_invalid' = invalid_of(total_rules)
  /\ num_valid' = valid_of(total_rules, duplicates_of(total_rules), invalid_of(total_rules))
  /\ rules' = << >>
  /\ rule_num' = 1
  /\ i' = 0
  /\ pc' = "valid"
  /\ UNCHANGED << seed, total_rules, run, error, rng, line, stats, fs, previous >>

(***************************************************************************)
(* The three generation loops: for i in range(num_...).                    *)
(***************************************************************************)
\* FAMILIES[i % len(FAMILIES)]
family_of(k) == FAMILIES[(k % Len(FAMILIES)) + 1]

\* mutant of LoopBody: "rule_num += 1" is missing
LoopBody_mutant(is_duplicate, is_invalid) ==
  LET r == generate_rule(rng, rule_num, family_of(i), is_duplicate, is_invalid)
  IN /\ rules' = Append(rules, r.v)
     /\ rng' = r.g
     /\ i' = i + 1
     /\ UNCHANGED << seed, total_rules, run, pc, error, num_duplicates, num_invalid,
                     num_valid, rule_num, line, stats, fs, previous >>

\* one iteration of a generation loop
LoopBody(is_duplicate, is_invalid) ==
  LET r == generate_rule(rng, rule_num, family_of(i), is_duplicate, is_invalid)
  IN /\ rules' = Append(rules, r.v)
     /\ rng' = r.g
     /\ rule_num' = rule_num + 1
     /\ i' = i + 1
     /\ UNCHANGED << seed, total_rules, run, pc, error, num_duplicates, num_invalid,
                     num_valid, line, stats, fs, previous >>

\* a generation loop ends: on to the statement at next
LoopEnd(next) ==
  /\ pc' = next
  /\ i' = 0
  /\ UNCHANGED << seed, total_rules, run, error, rng, num_duplicates, num_invalid,
                  num_valid, rules, rule_num, line, stats, fs, previous >>

GenerateValid == pc = "valid" /\ i < num_valid /\ LoopBody(FALSE, FALSE)

EndValid == pc = "valid" /\ i >= num_valid /\ LoopEnd("duplicate")

GenerateDuplicate == pc = "duplicate" /\ i < num_duplicates /\ LoopBody(TRUE, FALSE)

EndDuplicate == pc = "duplicate" /\ i >= num_duplicates /\ LoopEnd("invalid")

GenerateInvalid == pc = "invalid" /\ i < num_invalid /\ LoopBody(FALSE, TRUE)

EndInvalid == pc = "invalid" /\ i >= num_invalid /\ LoopEnd("shuffle")

\* random.shuffle(rules)
Shuffle ==
  /\ pc = "shuffle"
  /\ LET r == shuffle(rng, rules)
     IN rules' = r.v /\ rng' = r.g
  /\ pc' = "open_output"
  /\ UNCHANGED << seed, total_rules, run, error, num_duplicates, num_invalid, num_valid,
                  rule_num, i, line, stats, fs, previous >>

(***************************************************************************)
(* Writing the JSONL file.  Opening for writing truncates the file; any    *)
(* open or write may raise OSError, which ends the script where it is.     *)
(***************************************************************************)
\* the exception exc propagates out of the script
Raise(exc) ==
  /\ error' = exc
  /\ pc' = "failed"
  /\ UNCHANGED << seed, total_rules, run, rng, num_duplicates, num_invalid, num_valid,
                  rules, rule_num, i, line, stats, previous >>

OpenOutput ==
  /\ pc = "open_output"
  /\ fs' = [fs EXCEPT ![FILENAME] = [exists |-> TRUE, lines |-> << >>]]
  /\ line' = 0
  /\ pc' = "write_output"
  /\ UNCHANGED << seed, total_rules, run, error, rng, num_duplicates, num_invalid,
                  num_valid, rules, rule_num, i, stats, previous >>

OpenOutputFails == pc = "open_output" /\ Raise("OSError") /\ UNCHANGED fs

\* f.write(json.dumps(rule) + '\n')
WriteRule ==
  /\ pc = "write_output"
  /\ line < Len(rules)
  /\ fs' = [fs EXCEPT ![FILENAME].lines = Append(@, json_dumps(rules[line + 1], RULE_KEYS))]
  /\ line' = line + 1
  /\ UNCHANGED << seed, total_rules, run, pc, error, rng, num_duplicates, num_invalid,
                  num_valid, rules, rule_num, i, stats, previous >>

WriteRuleFails ==
  pc = "write_output" /\ line < Len(rules) /\ Raise("OSError") /\ UNCHANGED fs

CloseOutput ==
  /\ pc = "write_output"
  /\ line >= Len(rules)
  /\ pc' = "stats"
  /\ UNCHANGED << seed, total_rules, run, error, rng, num_duplicates, num_invalid,
                  num_valid, rules, rule_num, i, line, stats, fs, previous >>

(***************************************************************************)
(* The statistics.                                                         *)
(***************************************************************************)
ComputeStats ==
  /\ pc = "stats"
  /\ stats' = [ total_rules |-> total_rules,
                valid_rules |-> num_valid,
                duplicate_rules |-> num_duplicates,
                invalid_rules |-> num_invalid,
                families |-> [f \in {FAMILIES[k] : k \in 1..Len(FAMILIES)} |->
                                family_count(rules, f)] ]
  /\ pc' = "open_stats"
  /\ UNCHANGED << seed, total_rules, run, error, rng, num_duplicates, num_invalid,
                  num_valid, rules, rule_num, i, line, fs, previous >>

\* json.dumps(stats, indent=2)
stats_dumps(s) ==
  json_dumps([s EXCEPT !["families"] = json_dumps(s["families"], FAMILIES)], STATS_KEYS)

OpenStats ==
  /\ pc = "open_stats"
  /\ fs' = [fs EXCEPT ![stats_filename] = [exists |-> TRUE, lines |-> << >>]]
  /\ pc' = "write_stats"
  /\ UNCHANGED << seed, total_rules, run, error, rng, num_duplicates, num_invalid,
                  num_valid, rules, rule_num, i, line, stats, previous >>

OpenStatsFails == pc = "open_stats" /\ Raise("OSError") /\ UNCHANGED fs

WriteStats ==
  /\ pc = "write_stats"
  /\ fs' = [fs EXCEPT ![stats_filename].lines = Append(@, stats_dumps(stats))]
  /\ pc' = "summary"
  /\ UNCHANGED << seed, total_rules, run, error, rng, num_duplicates, num_invalid,
                  num_valid, rules, rule_num, i, line, stats, previous >>

WriteStatsFails == pc = "write_stats" /\ Raise("OSError") /\ UNCHANGED fs

\* the closing prints: num_valid/total_rules*100 divides by total_rules
PrintSummary ==
  /\ pc = "summary"
  /\ total_rules # 0
  /\ pc' = "done"
  /\ UNCHANGED << seed, total_rules, run, error, rng, num_duplicates, num_invalid,
                  num_valid, rules, rule_num, i, line, stats, fs, previous >>

PrintSummaryFails ==
  pc = "summary" /\ total_rules = 0 /\ Raise("ZeroDivisionError") /\ UNCHANGED fs

Next ==
  \/ Main
  \/ ComputeSizes
  \/ GenerateValid
  \/ EndValid
  \/ GenerateDuplicate
  \/ EndDuplicate
  \/ GenerateInvalid
  \/ EndInvalid
  \/ Shuffle
  \/ OpenOutput
  \/ OpenOutputFails
  \/ WriteRule
  \/ WriteRuleFails
  \/ CloseOutput
  \/ ComputeStats
  \/ OpenStats
  \/ OpenStatsFails
  \/ WriteStats
  \/ WriteStatsFails
  \/ PrintSummary
  \/ PrintSummaryFails

Spec == Init /\ [][Next]_vars

(***************************************************************************)
(* Vocabulary of the properties.                                           *)
(***************************************************************************)
\* until the shuffle, rules holds the records in generation order: rules[k]
\* was generated with rule number k
InGenerationOrder == pc \in {"valid", "duplicate", "invalid", "shuffle"}

\* the partition the k-th generated record belongs to
PartitionOf(k) ==
  IF k <= num_valid THEN "valid"
  ELSE IF k <= num_valid + num_duplicates THEN "duplicate"
  ELSE "invalid"

HasCode(r) == "rule_code" \in DOMAIN r

DecimalDigits == "0123456789"

DigitValue(c) == (CHOOSE k \in 1..10 : SubSeq(DecimalDigits, k, k) = c) - 1

RECURSIVE ParseDigits(_, _, _)
ParseDigits(s, k, acc) ==
  IF k > Len(s) THEN acc
  ELSE ParseDigits(s, k + 1, 10 * acc + DigitValue(SubSeq(s, k, k)))

ParseInt(s) ==
  IF Len(s) >= 1 /\ SubSeq(s, 1, 1) = "-"
  THEN 0 - ParseDigits(s, 2, 0)
  ELSE ParseDigits(s, 1, 0)

\* the rule number embedded in a rule_code "<family>.rule_<number>"
EmbeddedNumber(code) ==
  LET k == CHOOSE j \in 1..Len(code) : SubSeq(code, j, j + 5) = ".rule_"
  IN ParseInt(SubSeq(code, k + 6, Len(code)))

\* the corruptions a record exhibits
CorruptionsOf(r) ==
  {t \in {INVALID_TYPES[k] : k \in 1..Len(INVALID_TYPES)} :
     \/ t = "missing_rule_code" /\ "rule_code" \notin DOMAIN r
     \/ t = "missing_description" /\ "description" \notin DOMAIN r
     \/ t = "missing_conditions" /\ "conditions" \notin DOMAIN r
     \/ t = "empty_conditions" /\ "conditions" \in DOMAIN r /\ r["conditions"] = << >>
     \/ t = "invalid_priority_high" /\ "priority" \in DOMAIN r /\ r["priority"] = 1500
     \/ t = "invalid_priority_low" /\ "priority" \in DOMAIN r /\ r["priority"] = -10
     \/ t = "invalid_priority_negative" /\ "priority" \in DOMAIN r /\ r["priority"] = -100}

\* a condition's value has the shape its operator asks for
ValueMatchesOperator(c) ==
  IF c.operator = "BETWEEN"
  THEN /\ c.value.t = "list"
       /\ Len(c.value.v) = 2
       /\ c.value.v[1].t = "int" /\ c.value.v[2].t = "int"
       /\ c.value.v[1].v <= c.value.v[2].v
  ELSE IF c.operator \in {"IS_ANY_OF", "IS_NONE_OF"}
  THEN c.value.t = "list" /\ Len(c.value.v) \in 2..4
  ELSE /\ c.operator \in {"EQUAL_TO", "NOT_EQUAL_TO", "GREATER_THAN", "LESS_THAN"}
       /\ c.value.t \in {"int", "str", "bool"}

\* the value a written line gives for key, as a one-element sequence, or << >>
RECURSIVE LineGet(_, _, _)
LineGet(items, key, k) ==
  IF k > Len(items) THEN << >>
  ELSE IF items[k][1] = key THEN << items[k][2] >>
  ELSE LineGet(items, key, k + 1)

RECURSIVE SumOver(_, _, _)
SumOver(d, keys, k) ==
  IF k > Len(keys) THEN 0 ELSE d[keys[k]] + SumOver(d, keys, k + 1)

StatsComputed == pc \in {"open_stats", "write_stats", "summary", "done"}

BothFilesComplete ==
  /\ fs[FILENAME].exists
  /\ Len(fs[FILENAME].lines) = Len(rules)
  /\ fs[stats_filename].exists
  /\ fs[stats_filename].lines = << stats_dumps(stats) >>

(***************************************************************************)
(* The claims.                                                             *)
(***************************************************************************)

\* C1: for every total_rules >= 1 the sizes are num_duplicates =
\* floor(0.05 * total_rules), num_invalid = floor(0.03 * total_rules) and
\* num_valid = total_rules - num_duplicates - num_invalid, none is negative,
\* they sum to total_rules, each generation loop produces exactly its size in
\* records, and total_rules = 100 gives 92 valid, 5 duplicate, 3 invalid.
C1_PartitionSizes ==
  (total_rules >= 1 /\ pc \notin {"idle", "sizes"}) =>
    /\ num_duplicates = (5 * total_rules) \div 100
    /\ num_invalid = (3 * total_rules) \div 100
    /\ num_valid = total_rules - num_duplicates - num_invalid
    /\ num_duplicates >= 0 /\ num_invalid >= 0 /\ num_valid >= 0
    /\ num_valid + num_duplicates + num_invalid = total_rules
    /\ pc = "valid" => (i <= num_valid /\ Len(rules) = i)
    /\ pc = "duplicate" => (i <= num_duplicates /\ Len(rules) = num_valid + i)
    /\ pc = "invalid" =>
         (i <= num_invalid /\ Len(rules) = num_valid + num_duplicates + i)
    /\ pc \in {"shuffle", "open_output", "write_output", "stats", "open_stats",
               "write_stats", "summary", "done"} => Len(rules) = total_rules
    /\ total_rules = 100 => << num_valid, num_duplicates, num_invalid >> = << 92, 5, 3 >>

\* C1 witness: total_rules = 100, all three loops have run
C1_Witness ==
  /\ total_rules = 100
  /\ pc = "shuffle"
  /\ Len(rules) = 100
  /\ num_duplicates = 5 /\ num_invalid = 3

\* C2 (as claimed): the rule_code of every record generated in the duplicate
\* partition equals the rule_code of a record generated earlier in the run.
C2_DuplicateCollides ==
  LET k == Len(rules)
  IN (InGenerationOrder /\ k >= 1 /\ PartitionOf(k) = "duplicate") =>
       \E j \in 1..(k - 1) : HasCode(rules[j]) /\ rules[j]["rule_code"] = rules[k]["rule_code"]

\* C3 (as claimed): the number embedded in the rule_code of a record of the
\* duplicate partition is less than the record's own rule number, by 100 to 500.
C3_OffsetInRange ==
  LET k == Len(rules)
  IN (InGenerationOrder /\ k >= 1 /\ PartitionOf(k) = "duplicate") =>
       LET n == EmbeddedNumber(rules[k]["rule_code"])
       IN n < k /\ k - n >= 100 /\ k - n <= 500

\* C3 (amended): the number embedded in the rule_code of a record of the
\* duplicate partition is at least 1 and less than the record's own rule
\* number, by at most 500, and by at least 100 unless the embedded number is 1
\* (the floor at 1).
C3_OffsetInRangeOrFloored ==
  LET k == Len(rules)
  IN (InGenerationOrder /\ k >= 1 /\ PartitionOf(k) = "duplicate") =>
       LET n == EmbeddedNumber(rules[k]["rule_code"])
       IN /\ n >= 1
          /\ n < k
          /\ k - n <= 500
          /\ k - n >= 100 \/ n = 1

\* C3 witness: a duplicate record whose embedded number is above the floor
C3_Witness ==
  LET k == Len(rules)
  IN /\ InGenerationOrder /\ k >= 1 /\ PartitionOf(k) = "duplicate"
     /\ EmbeddedNumber(rules[k]["rule_code"]) > 1

\* C4: every record of the invalid partition exhibits exactly one of the seven
\* corruptions and is otherwise well-formed: the fields not removed are
\* present, conditions has 1 to 4 entries unless it is the corrupted field,
\* priority is in 1..1000 unless it is the corrupted field.
C4_ExactlyOneCorruption ==
  LET k == Len(rules)
  IN (InGenerationOrder /\ k >= 1 /\ PartitionOf(k) = "invalid") =>
       LET r == rules[k]
           c == CorruptionsOf(r)
       IN /\ Cardinality(c) = 1
          /\ {"priority", "enabled", "tags"} \subseteq DOMAIN r
          /\ "missing_rule_code" \notin c => "rule_code" \in DOMAIN r
          /\ "missing_description" \notin c => "description" \in DOMAIN r
          /\ c \cap {"missing_conditions", "empty_conditions"} = {} =>
               ("conditions" \in DOMAIN r /\ Len(r["conditions"]) \in 1..4)
          /\ c \cap {"invalid_priority_high", "invalid_priority_low",
                     "invalid_priority_negative"} = {} =>
               r["priority"] \in 1..1000

\* C4 witness: an invalid record whose rule_code was removed and whose
\* conditions and priority are intact
C4_Witness ==
  LET k == Len(rules)
  IN /\ InGenerationOrder /\ k >= 1 /\ PartitionOf(k) = "invalid"
     /\ CorruptionsOf(rules[k]) = {"missing_rule_code"}
     /\ Len(rules[k]["conditions"]) >= 2

\* C5 (as claimed): in the stats the per-family counts sum to at most
\* total_rules, and total_rules minus the sum is the number of emitted records
\* without a rule_code.
C5_FamilyCountsShortfall ==
  StatsComputed =>
    LET sum == SumOver(stats["families"], FAMILIES, 1)
    IN /\ sum <= stats["total_rules"]
       /\ stats["total_rules"] - sum
            = Cardinality({j \in 1..Len(rules) : ~HasCode(rules[j])})

\* C6: a second run with the same seed and total_rules leaves the same files
\* as the first: the same records in the same order and the same stats.
C6_SameSeedSameOutput ==
  (pc = "done" /\ previous.done) => fs = previous.fs

\* C6 witness: a second run has completed after a first that wrote a shuffled
\* file of valid, duplicate and invalid records
C6_Witness ==
  /\ pc = "done" /\ previous.done
  /\ num_duplicates >= 1 /\ num_invalid >= 1
  /\ Len(fs[FILENAME].lines) = total_rules

\* C7: every emitted record whose conditions are present and non-empty has 1
\* to 4 conditions, and each condition's value matches its operator: BETWEEN
\* two numbers, the first <= the second, IS_ANY_OF and IS_NONE_OF 2 to 4
\* entries, the other operators a scalar.
C7_ConditionShapes ==
  LET out == fs[FILENAME].lines
  IN Len(out) >= 1 =>
       LET cs == LineGet(out[Len(out)], "conditions", 1)
       IN (cs # << >> /\ cs[1] # << >>) =>
            /\ Len(cs[1]) \in 1..4
            /\ \A k \in 1..Len(cs[1]) : ValueMatchesOperator(cs[1][k])

\* C7 witness: an emitted record with four conditions, a BETWEEN among them
C7_Witness ==
  LET out == fs[FILENAME].lines
  IN /\ Len(out) >= 1
     /\ LET cs == LineGet(out[Len(out)], "conditions", 1)
        IN /\ cs # << >>
           /\ Len(cs[1]) = 4
           /\ \E k \in 1..4 : cs[1][k].operator = "BETWEEN"

\* C8 (as claimed): a call with total_rules <= 0 is rejected up front: it
\* ends in an error, no partition size is computed negative and neither file
\* is written.
C8_MalformedTotalRejected ==
  total_rules <= 0 =>
    /\ num_duplicates >= 0 /\ num_invalid >= 0 /\ num_valid >= 0
    /\ ~fs[FILENAME].exists /\ ~fs[stats_filename].exists
    /\ pc # "done"

\* C9 (as claimed): writing is all-or-nothing: after a write failure neither
\* file of this call exists, and after a call without one both files exist
\* complete.
C9_AllOrNothing ==
  run = 1 =>
    /\ (pc = "failed" /\ error = "OSError") =>
         (~fs[FILENAME].exists /\ ~fs[stats_filename].exists)
    /\ pc = "done" => BothFilesComplete

\* C10: rule numbers are assigned 1, 2, ... consecutively across the valid,
\* duplicate and invalid loops (the k-th record generated is described as
\* "Rule k", and outside the duplicate partition its rule_code embeds k), and
\* two records that share a rule_code are never both from the valid and
\* invalid partitions.
C10_CodesUniqueOutsideDuplicates ==
  LET k == Len(rules)
  IN /\ InGenerationOrder => rule_num = k + 1
     /\ (InGenerationOrder /\ k >= 1 /\ "description" \in DOMAIN rules[k]) =>
          endswith(rules[k]["description"], " Rule " \o ToString(k))
     /\ (InGenerationOrder /\ k >= 1 /\ PartitionOf(k) # "duplicate" /\ HasCode(rules[k])) =>
          EmbeddedNumber(rules[k]["rule_code"]) = k
     /\ (InGenerationOrder /\ k >= 1 /\ PartitionOf(k) # "duplicate" /\ HasCode(rules[k])) =>
          \A j \in 1..(k - 1) :
            (PartitionOf(j) # "duplicate" /\ HasCode(rules[j])) =>
              rules[j]["rule_code"] # rules[k]["rule_code"]

\* C10 witness: an invalid record that keeps its rule_code, generated after
\* valid and duplicate records, one of which shares its code with another
C10_Witness ==
  LET k == Len(rules)
  IN /\ InGenerationOrder /\ k >= 1 /\ PartitionOf(k) = "invalid" /\ HasCode(rules[k])
     /\ \E a \in 1..k : \E b \in 1..(a - 1) :
          /\ PartitionOf(a) = "duplicate"
          /\ HasCode(rules[b]) /\ rules[b]["rule_code"] = rules[a]["rule_code"]

====
